---- MODULE Spec2Model ----
(***************************************************************************)
(* A model of planner.py: the command-line learning planner that asks a    *)
(* Generator agent for a draft plan (streamed), hands the complete draft   *)
(* to a Critic agent (single response), splits the Critic's reply into an  *)
(* assessment and a refined plan, displays it and optionally saves it.     *)
(*                                                                         *)
(* Text is a sequence of one-character strings, so that str.strip,         *)
(* str.replace, str.split, "in", slicing and re.sub are modelled by what   *)
(* they do to the characters.                                              *)
(***************************************************************************)
EXTENDS Integers, Sequences, FiniteSets, TLC

VARIABLES
    pc,            \* position of the program
    topic,         \* args.topic (text)
    save,          \* args.save
    verbose,       \* args.verbose
    lastInput,     \* None or Some(raw): the text last entered at the menu, stripped
    rejected,      \* number of "Please enter a number..." re-prompts so far
    familiarity,   \* None or Some(level): the value prompt_familiarity returned
    outstanding,   \* the remote calls in flight
    calls,         \* the remote calls issued so far, in order
    completed,     \* the remote calls that returned successfully
    wire,          \* the text the remote service has streamed so far
    chunks,        \* run_generator's list of fragments
    echoed,        \* the text run_generator printed to stdout
    original_plan, \* None or Some(text): run_generator's result
    criticPrompt,  \* None or Some(prompt): the Critic prompt once built
    full_text,     \* the Critic's raw reply (text)
    parsed,        \* None or Some([assessment, refined]): run_critic's result
    reparsed,      \* None or Some(..): the parse of assessment + marker + refined
    failure,       \* None or Some([call, error]): how a remote call ended badly
    raised,        \* None or Some(exception): the exception in flight
    handled,       \* None or Some(exception): what an except clause of main caught
    exitCode,      \* None or Some(status): the status the process exited with
    file,          \* None or Some([name, content]): the markdown file on disk
    slug           \* None or Some(text): slugify's result

vars == <<pc, topic, save, verbose, lastInput, rejected, familiarity, outstanding,
          calls, completed, wire, chunks, echoed, original_plan, criticPrompt,
          full_text, parsed, reparsed, failure, raised, handled, exitCode, file,
          slug>>

None == <<>>
Some(x) == <<x>>
Val(o) == o[1]

----------------------------------------------------------------------------
(* Bounds of the model *)

\* fragments a modelled Critic reply is assembled from, at most
MaxReplyFrags == 4
\* fragments a modelled topic is assembled from, at most
MaxTopicFrags == 3
\* text fragments one Generator stream delivers, at most
MaxChunks == 3
\* rejected menu entries, at most
MaxRejects == 2

----------------------------------------------------------------------------
(* Text *)

\* tuples of length 0..n over the set S
RECURSIVE TuplesUpTo(_, _)
TuplesUpTo(S, n) ==
    IF n = 0 THEN {<<>>}
    ELSE LET shorter == TuplesUpTo(S, n - 1)
         IN shorter \cup {Append(t, x) : t \in {u \in shorter : Len(u) = n - 1}, x \in S}

\* "".join(parts)
RECURSIVE Join(_)
Join(parts) == IF parts = <<>> THEN <<>> ELSE Head(parts) \o Join(Tail(parts))

\* the characters str.strip() removes (the ASCII part of Python's whitespace)
Whitespace == {" ", "\t", "\n", "\r", "\f"}

\* s.strip(cs): s without its leading and trailing characters of cs
StripChars(s, cs) ==
    LET keep == {i \in 1..Len(s) : s[i] \notin cs}
    IN IF keep = {} THEN <<>>
       ELSE LET lo == CHOOSE i \in keep : \A j \in keep : i <= j
                hi == CHOOSE i \in keep : \A j \in keep : j <= i
            IN SubSeq(s, lo, hi)

\* s.strip()
Strip(s) == StripChars(s, Whitespace)

\* pat occurs in s at position i
StartsAt(s, pat, i) ==
    /\ i >= 1
    /\ i + Len(pat) - 1 <= Len(s)
    /\ \A k \in 1..Len(pat) : s[i + k - 1] = pat[k]

\* s.find(pat, from): the least position >= from where pat occurs, 0 when none
Find(s, pat, from) ==
    LET hits == {i \in from..(Len(s) - Len(pat) + 1) : StartsAt(s, pat, i)}
    IN IF hits = {} THEN 0 ELSE CHOOSE i \in hits : \A j \in hits : i <= j

\* pat in s
Contains(s, pat) == Find(s, pat, 1) # 0

\* s[from:].replace(old, new), old non-empty: one pass, left to right, over the
\* non-overlapping occurrences
RECURSIVE ReplaceFrom(_, _, _, _)
ReplaceFrom(s, old, new, from) ==
    LET i == Find(s, old, from)
    IN IF i = 0 THEN SubSeq(s, from, Len(s))
       ELSE SubSeq(s, from, i - 1) \o new \o ReplaceFrom(s, old, new, i + Len(old))

\* s.replace(old, new)
Replace(s, old, new) == ReplaceFrom(s, old, new, 1)

\* variant: the second part still starts with the separator
Split1KeepSep(s, sep) ==
    LET i == Find(s, sep, 1)
    IN <<SubSeq(s, 1, i - 1), SubSeq(s, i, Len(s))>>

\* s.split(sep, 1) for s containing sep: the text before and after the first sep
Split1(s, sep) ==
    LET i == Find(s, sep, 1)
    IN <<SubSeq(s, 1, i - 1), SubSeq(s, i + Len(sep), Len(s))>>

----------------------------------------------------------------------------
(* run_critic: the parse of the Critic's reply *)

\* marker = "## Refined Plan"
marker == <<"#", "#", " ", "R", "e", "f", "i", "n", "e", "d", " ", "P", "l", "a", "n">>

\* the literal "## Assessment" of before.replace("## Assessment", "")
AssessmentHeading == <<"#", "#", " ", "A", "s", "s", "e", "s", "s", "m", "e", "n", "t">>

\* variant: neither part is stripped of whitespace
ParseCriticNoStrip(text) ==
    IF Contains(text, marker)
    THEN LET parts == Split1(text, marker)
         IN [assessment |-> Replace(parts[1], AssessmentHeading, <<>>),
             refined |-> parts[2]]
    ELSE [assessment |-> <<>>, refined |-> text]

\* variant: the assessment heading is left in place
ParseCriticKeepHeading(text) ==
    IF Contains(text, marker)
    THEN LET parts == Split1(text, marker)
         IN [assessment |-> Strip(parts[1]), refined |-> Strip(parts[2])]
    ELSE [assessment |-> <<>>, refined |-> Strip(text)]

\* lines 235-244: the split at the marker, or the fallback
ParseCritic(text) ==
    IF Contains(text, marker)
    THEN LET parts == Split1(text, marker)
         IN [assessment |-> Strip(Replace(parts[1], AssessmentHeading, <<>>)),
             refined |-> Strip(parts[2])]
    ELSE [assessment |-> <<>>, refined |-> Strip(text)]

----------------------------------------------------------------------------
(* slugify *)

UpperLetters == <<"A", "B", "C", "D", "E", "F", "G", "H", "I", "J", "K", "L", "M",
                  "N", "O", "P", "Q", "R", "S", "T", "U", "V", "W", "X", "Y", "Z">>
LowerLetters == <<"a", "b", "c", "d", "e", "f", "g", "h", "i", "j", "k", "l", "m",
                  "n", "o", "p", "q", "r", "s", "t", "u", "v", "w", "x", "y", "z">>
DecimalDigits == <<"0", "1", "2", "3", "4", "5", "6", "7", "8", "9">>

Range(f) == {f[i] : i \in DOMAIN f}

\* c.lower()
LowerChar(c) ==
    IF c \in Range(UpperLetters)
    THEN LowerLetters[CHOOSE i \in DOMAIN UpperLetters : UpperLetters[i] = c]
    ELSE c

\* text.lower()
Lower(s) == [i \in 1..Len(s) |-> LowerChar(s[i])]

\* the characters \w matches: alphanumerics and the underscore
IsWordChar(c) ==
    c \in Range(UpperLetters) \cup Range(LowerLetters) \cup Range(DecimalDigits) \cup {"_"}

\* re.sub(r"[^\w\s-]", "", s)
DropPunctuation(s) ==
    SelectSeq(s, LAMBDA c : IsWordChar(c) \/ c \in Whitespace \/ c = "-")

\* the characters [\s_-] matches
Separators == Whitespace \cup {"_", "-"}

\* re.sub(r"[\s_-]+", "-", s): every maximal run of separators becomes one hyphen
CollapseSeparators(s) ==
    LET mark == [i \in 1..Len(s) |->
                    IF s[i] \notin Separators THEN s[i]
                    ELSE IF i > 1 /\ s[i - 1] \in Separators THEN "" ELSE "-"]
    IN SelectSeq(mark, LAMBDA c : c # "")

\* the 50 of text[:50]
SlugMaxLen == 50

\* s[:n]
Prefix(s, n) == SubSeq(s, 1, IF Len(s) < n THEN Len(s) ELSE n)

\* variant: the hyphens at the ends are left in place
slugifyNoFinalStrip(text) ==
    Prefix(CollapseSeparators(DropPunctuation(Strip(Lower(text)))), SlugMaxLen)

slugify(text) ==
    StripChars(Prefix(CollapseSeparators(DropPunctuation(Strip(Lower(text)))),
                      SlugMaxLen),
               {"-"})

----------------------------------------------------------------------------
(* prompt_familiarity *)

\* (the em dashes of the context texts are written -- here)
FAMILIARITY_LEVELS == <<
    [label |-> "Novice",
     description |-> "Never worked with it before",
     context |-> "The learner has never worked with this topic before. Assume zero prior knowledge of the topic itself, though they are a competent developer. Day 1 must build confidence through pure concepts -- no setup, no code. Every term introduced must be briefly defined. By the end of the week they should feel genuinely ready to contribute to a real codebase."],
    [label |-> "A little familiar",
     description |-> "Seen it or done a quick tutorial",
     context |-> "The learner has a passing familiarity -- perhaps followed a getting-started tutorial or read an overview -- but has never built anything real with this topic. Day 1 should consolidate and sharpen existing mental models rather than re-explain basics. Pick up pace gradually from Day 2 onward, filling gaps and building toward production patterns. By the end of the week they should feel confident enough to own a feature in a professional project."],
    [label |-> "Quite familiar",
     description |-> "Used it in small projects or prototypes",
     context |-> "The learner has used this topic in small projects and understands the core mechanics. Day 1 should challenge and deepen existing knowledge -- focus on mental models, edge cases, or common misconceptions rather than re-covering ground they already know. Progress quickly toward advanced patterns, best practices, and production-readiness. By the end of the week they should feel ready to architect and lead work in this area."] >>

\* characters str.isdigit() accepts that int() does not (superscript digits
\* and the like); U+00B2, the superscript two, written "^2" here, stands for them
NonDecimalDigits == {"^2"}

\* raw.isdigit()
IsDigit(raw) ==
    /\ raw # <<>>
    /\ \A i \in 1..Len(raw) : raw[i] \in Range(DecimalDigits) \cup NonDecimalDigits

\* whether int(raw) succeeds, for raw that passed isdigit()
IntParses(raw) == \A i \in 1..Len(raw) : raw[i] \in Range(DecimalDigits)

DigitValue(c) == (CHOOSE i \in DOMAIN DecimalDigits : DecimalDigits[i] = c) - 1

\* int(raw) for a decimal numeral
RECURSIVE IntOf(_)
IntOf(raw) ==
    IF raw = <<>> THEN 0
    ELSE 10 * IntOf(SubSeq(raw, 1, Len(raw) - 1)) + DigitValue(raw[Len(raw)])

\* what a user may type at the menu
MenuInputs ==
    { <<>>, <<"0">>, <<"1">>, <<"2">>, <<"3">>, <<"4">>, <<"x">>, <<"-", "1">>,
      <<" ", "2", " ">>, <<"0", "1">>, <<"1", "2">>, <<"^2">> }

\* one pass of the while loop: input(), strip, the check, return or re-prompt
PromptInput(entered) ==
    LET raw == Strip(entered)
    IN /\ pc = "prompt"
       /\ lastInput' = Some(raw)
       /\ IF IsDigit(raw) /\ ~IntParses(raw)
          THEN \* int(raw) raises ValueError; nothing up to the interpreter catches it
               /\ raised' = Some("ValueError")
               /\ pc' = "uncaught"
               /\ UNCHANGED <<rejected, familiarity>>
          ELSE IF IsDigit(raw) /\ 1 <= IntOf(raw) /\ IntOf(raw) <= Len(FAMILIARITY_LEVELS)
          THEN /\ familiarity' = Some(FAMILIARITY_LEVELS[IntOf(raw)])
               /\ pc' = "generator_call"
               /\ UNCHANGED <<rejected, raised>>
          ELSE /\ rejected < MaxRejects
               /\ rejected' = rejected + 1
               /\ UNCHANGED <<pc, familiarity, raised>>
       /\ UNCHANGED <<topic, save, verbose, outstanding, calls, completed, wire, chunks,
                      echoed, original_plan, criticPrompt, full_text, parsed, reparsed,
                      failure, handled, exitCode, file, slug>>

\* KeyboardInterrupt or EOFError at input(): sys.exit(0)
PromptAbort ==
    /\ pc = "prompt"
    /\ exitCode' = Some(0)
    /\ pc' = "exited"
    /\ UNCHANGED <<topic, save, verbose, lastInput, rejected, familiarity, outstanding,
                   calls, completed, wire, chunks, echoed, original_plan, criticPrompt,
                   full_text, parsed, reparsed, failure, raised, handled, file, slug>>

----------------------------------------------------------------------------
(* run_generator *)

\* the errors of the anthropic client that main has an except clause for
ApiErrors == {"AuthenticationError", "APIConnectionError", "RateLimitError",
              "APIStatusError"}

\* the text fragments a modelled stream delivers
ChunkTexts == { <<"a">>, <<"b", "c">> }

\* client.messages.stream(...) is entered: the Generator request is issued
GeneratorCall ==
    /\ pc = "generator_call"
    /\ outstanding' = outstanding \cup {"generator"}
    /\ calls' = Append(calls, "generator")
    /\ pc' = "streaming"
    /\ UNCHANGED <<topic, save, verbose, lastInput, rejected, familiarity, completed,
                   wire, chunks, echoed, original_plan, criticPrompt, full_text, parsed,
                   reparsed, failure, raised, handled, exitCode, file, slug>>

\* variant: the fragment is kept only when it is echoed
StreamChunkVerboseOnly(text) ==
    /\ pc = "streaming"
    /\ Len(chunks) < MaxChunks
    /\ wire' = wire \o text
    /\ echoed' = IF verbose THEN echoed \o text ELSE echoed
    /\ chunks' = IF verbose THEN Append(chunks, text) ELSE chunks
    /\ UNCHANGED <<pc, topic, save, verbose, lastInput, rejected, familiarity,
                   outstanding, calls, completed, original_plan, criticPrompt, full_text,
                   parsed, reparsed, failure, raised, handled, exitCode, file, slug>>

\* one pass of the for loop: the service delivers a fragment, it is printed
\* when verbose and appended to chunks
StreamChunk(text) ==
    /\ pc = "streaming"
    /\ Len(chunks) < MaxChunks
    /\ wire' = wire \o text
    /\ echoed' = IF verbose THEN echoed \o text ELSE echoed
    /\ chunks' = Append(chunks, text)
    /\ UNCHANGED <<pc, topic, save, verbose, lastInput, rejected, familiarity,
                   outstanding, calls, completed, original_plan, criticPrompt, full_text,
                   parsed, reparsed, failure, raised, handled, exitCode, file, slug>>

\* the stream ends (after any number of fragments): the with block is left and
\* run_generator returns "".join(chunks)
StreamEnd ==
    /\ pc = "streaming"
    /\ outstanding' = outstanding \ {"generator"}
    /\ completed' = completed \cup {"generator"}
    /\ original_plan' = Some(Join(chunks))
    /\ pc' = "critic_prompt"
    /\ UNCHANGED <<topic, save, verbose, lastInput, rejected, familiarity, calls, wire,
                   chunks, echoed, criticPrompt, full_text, parsed, reparsed, failure,
                   raised, handled, exitCode, file, slug>>

\* variant: the error is swallowed and the text received so far returned
GeneratorFailSwallowed(e) ==
    /\ pc = "streaming"
    /\ failure' = Some([call |-> "generator", error |-> e])
    /\ outstanding' = outstanding \ {"generator"}
    /\ original_plan' = Some(Join(chunks))
    /\ pc' = "critic_prompt"
    /\ UNCHANGED <<topic, save, verbose, lastInput, rejected, familiarity, calls,
                   completed, wire, chunks, echoed, criticPrompt, full_text, parsed,
                   reparsed, raised, handled, exitCode, file, slug>>

\* the stream raises e (on opening or between fragments): the with block is
\* left, and neither run_generator nor generate_learning_plan catches e
GeneratorFail(e) ==
    /\ pc = "streaming"
    /\ failure' = Some([call |-> "generator", error |-> e])
    /\ raised' = Some(e)
    /\ outstanding' = outstanding \ {"generator"}
    /\ pc' = "propagating"
    /\ UNCHANGED <<topic, save, verbose, lastInput, rejected, familiarity, calls,
                   completed, wire, chunks, echoed, original_plan, criticPrompt,
                   full_text, parsed, reparsed, handled, exitCode, file, slug>>

----------------------------------------------------------------------------
(* run_critic *)

\* CRITIC_PROMPT_TEMPLATE.format(...): the three values the template embeds
\* (the fixed text around them is not modelled)
CriticPromptOf(t, fam, plan) ==
    [topic |-> t, familiarity_label |-> fam.label, original_plan |-> plan]

\* the replies a modelled Critic gives in a run of the whole program
PipelineReplies ==
    { <<>>,
      <<"x", " ">>,
      marker \o <<"\n", "p">>,
      AssessmentHeading \o <<"\n", "o", "k", "\n">> \o marker \o <<"\n", "p", "\n">> }

\* variant: the prompt is built from the fragments received so far, without
\* waiting for the end of the stream
BuildCriticPromptFromChunksSoFar ==
    /\ pc \in {"critic_prompt", "streaming"}
    /\ criticPrompt' = Some(CriticPromptOf(topic, Val(familiarity), Join(chunks)))
    /\ original_plan' = Some(Join(chunks))
    /\ pc' = "critic_call"
    /\ UNCHANGED <<topic, save, verbose, lastInput, rejected, familiarity, outstanding,
                   calls, completed, wire, chunks, echoed, full_text, parsed,
                   reparsed, failure, raised, handled, exitCode, file, slug>>

\* the Critic prompt is built from run_generator's result
BuildCriticPrompt ==
    /\ pc = "critic_prompt"
    /\ criticPrompt' = Some(CriticPromptOf(topic, Val(familiarity), Val(original_plan)))
    /\ pc' = "critic_call"
    /\ UNCHANGED <<topic, save, verbose, lastInput, rejected, familiarity, outstanding,
                   calls, completed, wire, chunks, echoed, original_plan, full_text,
                   parsed, reparsed, failure, raised, handled, exitCode, file, slug>>

\* client.messages.create(...): the Critic request is issued
CriticCall ==
    /\ pc = "critic_call"
    /\ outstanding' = outstanding \cup {"critic"}
    /\ calls' = Append(calls, "critic")
    /\ pc' = "critic_wait"
    /\ UNCHANGED <<topic, save, verbose, lastInput, rejected, familiarity, completed,
                   wire, chunks, echoed, original_plan, criticPrompt, full_text, parsed,
                   reparsed, failure, raised, handled, exitCode, file, slug>>

\* the response arrives; its text is split into assessment and refined plan
CriticResponse(reply) ==
    /\ pc = "critic_wait"
    /\ outstanding' = outstanding \ {"critic"}
    /\ completed' = completed \cup {"critic"}
    /\ full_text' = Some(reply)
    /\ parsed' = Some(ParseCritic(reply))
    /\ pc' = "display"
    /\ UNCHANGED <<topic, save, verbose, lastInput, rejected, familiarity, calls, wire,
                   chunks, echoed, original_plan, criticPrompt, reparsed, failure,
                   raised, handled, exitCode, file, slug>>

\* client.messages.create raises e; neither run_critic nor
\* generate_learning_plan catches it
CriticFail(e) ==
    /\ pc = "critic_wait"
    /\ failure' = Some([call |-> "critic", error |-> e])
    /\ raised' = Some(e)
    /\ outstanding' = outstanding \ {"critic"}
    /\ pc' = "propagating"
    /\ UNCHANGED <<topic, save, verbose, lastInput, rejected, familiarity, calls,
                   completed, wire, chunks, echoed, original_plan, criticPrompt,
                   full_text, parsed, reparsed, handled, exitCode, file, slug>>

\* Ctrl-C while a remote call is in flight: KeyboardInterrupt is raised in the
\* blocked call and no function of the program catches it there
Interrupt ==
    /\ pc \in {"streaming", "critic_wait"}
    /\ failure' = Some([call |-> IF pc = "streaming" THEN "generator" ELSE "critic",
                        error |-> "KeyboardInterrupt"])
    /\ raised' = Some("KeyboardInterrupt")
    /\ outstanding' = {}
    /\ pc' = "propagating"
    /\ UNCHANGED <<topic, save, verbose, lastInput, rejected, familiarity, calls,
                   completed, wire, chunks, echoed, original_plan, criticPrompt,
                   full_text, parsed, reparsed, handled, exitCode, file, slug>>

----------------------------------------------------------------------------
(* generate_learning_plan, steps 3 and 4, and main's except clauses *)

\* step 3: the refined plan is printed; then the save flag is looked at
Display ==
    /\ pc = "display"
    /\ pc' = IF save THEN "save" ELSE "done"
    /\ UNCHANGED <<topic, save, verbose, lastInput, rejected, familiarity, outstanding,
                   calls, completed, wire, chunks, echoed, original_plan, criticPrompt,
                   full_text, parsed, reparsed, failure, raised, handled, exitCode,
                   file, slug>>

\* the markdown document of step 4
MarkdownFile(t, fam, sl, refined) ==
    [name |-> [prefix |-> "learning-plan-", slug |-> sl, suffix |-> "-<today>.md"],
     content |-> [title |-> t, label |-> fam.label, body |-> refined]]

\* variant: the draft is written to the file before the Critic is called
SaveMarkdownDraftEarly ==
    /\ pc \in {"save", "critic_call"}
    /\ file = None
    /\ slug' = Some(slugify(topic))
    /\ file' = Some(MarkdownFile(topic, Val(familiarity), slugify(topic),
                                 IF pc = "save" THEN Val(parsed).refined
                                 ELSE Val(original_plan)))
    /\ pc' = IF pc = "save" THEN "done" ELSE pc
    /\ UNCHANGED <<topic, save, verbose, lastInput, rejected, familiarity, outstanding,
                   calls, completed, wire, chunks, echoed, original_plan, criticPrompt,
                   full_text, parsed, reparsed, failure, raised, handled, exitCode>>

\* step 4: output_path.write_text(md_content)
SaveMarkdown ==
    /\ pc = "save"
    /\ slug' = Some(slugify(topic))
    /\ file' = Some(MarkdownFile(topic, Val(familiarity), slugify(topic),
                                 Val(parsed).refined))
    /\ pc' = "done"
    /\ UNCHANGED <<topic, save, verbose, lastInput, rejected, familiarity, outstanding,
                   calls, completed, wire, chunks, echoed, original_plan, criticPrompt,
                   full_text, parsed, reparsed, failure, raised, handled, exitCode>>

\* the exception reaches main's try statement: one of the four except clauses
\* takes an API error and exits with status 1; nothing takes a KeyboardInterrupt
MainExcept ==
    /\ pc = "propagating"
    /\ IF Val(raised) \in ApiErrors
       THEN /\ handled' = raised
            /\ exitCode' = Some(1)
            /\ pc' = "exited"
       ELSE /\ pc' = "uncaught"
            /\ UNCHANGED <<handled, exitCode>>
    /\ UNCHANGED <<topic, save, verbose, lastInput, rejected, familiarity, outstanding,
                   calls, completed, wire, chunks, echoed, original_plan, criticPrompt,
                   full_text, parsed, reparsed, failure, raised, file, slug>>

----------------------------------------------------------------------------
(* The program *)

\* the topics of a run of the whole program
PipelineTopics == { <<"R", "e", "d", "i", "s">>, <<"C", "+", "+", " ", "&", " ", "G", "o">> }

\* nothing has happened yet
Fresh ==
    /\ lastInput = None /\ rejected = 0 /\ familiarity = None
    /\ outstanding = {} /\ calls = <<>> /\ completed = {}
    /\ wire = <<>> /\ chunks = <<>> /\ echoed = <<>>
    /\ original_plan = None /\ criticPrompt = None
    /\ parsed = None /\ reparsed = None
    /\ failure = None /\ raised = None /\ handled = None /\ exitCode = None
    /\ file = None /\ slug = None

\* main has parsed the arguments and has a non-empty topic
Init ==
    /\ pc = "prompt"
    /\ topic \in PipelineTopics
    /\ save \in BOOLEAN
    /\ verbose \in BOOLEAN
    /\ full_text = None
    /\ Fresh

Next ==
    \/ \E entered \in MenuInputs : PromptInput(entered)
    \/ PromptAbort
    \/ GeneratorCall
    \/ \E text \in ChunkTexts : StreamChunk(text)
    \/ StreamEnd
    \/ \E e \in ApiErrors : GeneratorFail(e)
    \/ BuildCriticPrompt
    \/ CriticCall
    \/ \E reply \in PipelineReplies : CriticResponse(reply)
    \/ \E e \in ApiErrors : CriticFail(e)
    \/ Interrupt
    \/ Display
    \/ SaveMarkdown
    \/ MainExcept

Spec == Init /\ [][Next]_vars

----------------------------------------------------------------------------
(* The parse of run_critic applied to a range of replies *)

\* the pieces modelled replies are assembled from: whitespace, other text, a
\* line of text, the marker, the assessment heading, and each of the two cut
\* in two
ReplyFragments ==
    { <<" ">>, <<"x">>, <<"\n", "o", "k", "\n">>, marker, AssessmentHeading,
      SubSeq(marker, 1, 7), SubSeq(marker, 8, Len(marker)),
      SubSeq(AssessmentHeading, 1, 8),
      SubSeq(AssessmentHeading, 9, Len(AssessmentHeading)) }

Replies == {Join(t) : t \in TuplesUpTo(ReplyFragments, MaxReplyFrags)}

InitParse ==
    /\ pc = "reply"
    /\ full_text \in {Some(r) : r \in Replies}
    /\ topic = <<>>
    /\ save = FALSE
    /\ verbose = FALSE
    /\ Fresh

\* lines 232-244 of run_critic on the reply
ParseReply ==
    /\ pc = "reply"
    /\ parsed' = Some(ParseCritic(Val(full_text)))
    /\ pc' = "parsed"
    /\ UNCHANGED <<topic, save, verbose, lastInput, rejected, familiarity, outstanding,
                   calls, completed, wire, chunks, echoed, original_plan, criticPrompt,
                   full_text, reparsed, failure, raised, handled, exitCode, file, slug>>

\* the same lines on assessment + marker + refined_plan
ParseReassembled ==
    /\ pc = "parsed"
    /\ reparsed' = Some(ParseCritic(Val(parsed).assessment \o marker
                                    \o Val(parsed).refined))
    /\ pc' = "reparsed"
    /\ UNCHANGED <<topic, save, verbose, lastInput, rejected, familiarity, outstanding,
                   calls, completed, wire, chunks, echoed, original_plan, criticPrompt,
                   full_text, parsed, failure, raised, handled, exitCode, file, slug>>

NextParse == ParseReply \/ ParseReassembled

SpecParse == InitParse /\ [][NextParse]_vars

----------------------------------------------------------------------------
(* slugify applied to a range of topics *)

\* a word one character short of the slug's limit
LongWord == [i \in 1..(SlugMaxLen - 1) |-> "k"]

\* the pieces modelled topics are assembled from
TopicFragments ==
    { <<"D">>, <<"o">>, <<"7">>, <<" ">>, <<"_">>, <<"-">>, <<"&">>, LongWord }

\* "Docker Compose & Kubernetes!"
DockerTopic ==
    <<"D", "o", "c", "k", "e", "r", " ", "C", "o", "m", "p", "o", "s", "e", " ", "&",
      " ", "K", "u", "b", "e", "r", "n", "e", "t", "e", "s", "!">>

SlugTopics ==
    {Join(t) : t \in TuplesUpTo(TopicFragments, MaxTopicFrags)} \cup {DockerTopic}

InitSlug ==
    /\ pc = "topic"
    /\ topic \in SlugTopics
    /\ save = TRUE
    /\ verbose = FALSE
    /\ full_text = None
    /\ Fresh

\* slug = slugify(topic)
ApplySlugify ==
    /\ pc = "topic"
    /\ slug' = Some(slugify(topic))
    /\ pc' = "slugged"
    /\ UNCHANGED <<topic, save, verbose, lastInput, rejected, familiarity, outstanding,
                   calls, completed, wire, chunks, echoed, original_plan, criticPrompt,
                   full_text, parsed, reparsed, failure, raised, handled, exitCode, file>>

NextSlug == ApplySlugify

SpecSlug == InitSlug /\ [][NextSlug]_vars

----------------------------------------------------------------------------
(* Properties of the parse (checked under SpecParse) *)

\* the positions of s where pat occurs
Occurrences(s, pat) == {i \in 1..Len(s) : StartsAt(s, pat, i)}

\* t is s without its leading and trailing whitespace: s is whitespace, then
\* t, then whitespace, and t neither starts nor ends with whitespace
IsTrimOf(t, s) ==
    /\ t # <<>> => t[1] \notin Whitespace /\ t[Len(t)] \notin Whitespace
    /\ \E lead \in 0..(Len(s) - Len(t)) :
          /\ \A k \in 1..Len(s) :
                k <= lead \/ k > lead + Len(t) => s[k] \in Whitespace
          /\ \A k \in 1..Len(t) : t[k] = s[lead + k]

\* s with every character that lies inside an occurrence of pat deleted
WithoutOccurrences(s, pat) ==
    LET inside(i) == \E p \in Occurrences(s, pat) : p <= i /\ i < p + Len(pat)
        mark == [i \in 1..Len(s) |-> IF inside(i) THEN "" ELSE s[i]]
    IN SelectSeq(mark, LAMBDA c : c # "")

\* the reply has been parsed
Parsed == parsed # None /\ full_text # None

\* C1: for every raw reply the refined_plan the parse returns is a non-empty
\* string.
C1_RefinedPlanNonEmpty == Parsed => Val(parsed).refined # <<>>

\* C5: when the raw reply does not contain the marker, the assessment is the
\* empty string and the refined plan is the whole reply without its leading and
\* trailing whitespace.
C5_MarkerAbsentFallback ==
    Parsed /\ Occurrences(Val(full_text), marker) = {} =>
        /\ Val(parsed).assessment = <<>>
        /\ IsTrimOf(Val(parsed).refined, Val(full_text))

\* a reply without marker whose whitespace at both ends was trimmed away
C5_Witness ==
    /\ pc = "parsed"
    /\ Occurrences(Val(full_text), marker) = {}
    /\ Val(parsed).refined # <<>>
    /\ Len(Val(full_text)) >= Len(Val(parsed).refined) + 2
    /\ Val(full_text)[1] \in Whitespace
    /\ Val(full_text)[Len(Val(full_text))] \in Whitespace

\* C6: when the raw reply contains the marker, the assessment is the text
\* before the first marker with every "## Assessment" deleted and then
\* trimmed, and the refined plan is the text after that marker, trimmed; a
\* reply that starts with the marker has the empty assessment.
C6_MarkerSplit ==
    Parsed /\ Occurrences(Val(full_text), marker) # {} =>
        LET s == Val(full_text)
            p == CHOOSE i \in Occurrences(s, marker) :
                    \A j \in Occurrences(s, marker) : i <= j
            before == SubSeq(s, 1, p - 1)
            after == SubSeq(s, p + Len(marker), Len(s))
        IN /\ IsTrimOf(Val(parsed).assessment,
                       WithoutOccurrences(before, AssessmentHeading))
           /\ IsTrimOf(Val(parsed).refined, after)
           /\ p = 1 => Val(parsed).assessment = <<>>

\* a reply with heading, assessment text, marker and plan text, with
\* whitespace to trim
C6_Witness ==
    /\ pc = "parsed"
    /\ Occurrences(Val(full_text), marker) # {}
    /\ Occurrences(Val(full_text), AssessmentHeading) # {}
    /\ Val(parsed).assessment # <<>>
    /\ Val(parsed).refined # <<>>
    /\ Len(Val(full_text)) > Len(Val(parsed).assessment) + Len(Val(parsed).refined)
                             + Len(marker) + Len(AssessmentHeading)

\* the reply holds the marker exactly once and has been parsed twice
ReparsedWellFormed ==
    /\ Parsed
    /\ reparsed # None
    /\ Cardinality(Occurrences(Val(full_text), marker)) = 1

\* C7 as stated: for every raw reply containing the marker exactly once, the
\* parse of assessment + marker + refined_plan is again (assessment,
\* refined_plan).
C7_IdempotentOnEveryMarkedReply ==
    ReparsedWellFormed => Val(reparsed) = Val(parsed)

\* C7 as amended: for every raw reply containing the marker exactly once whose
\* parsed assessment contains neither "## Assessment" nor the marker, the parse
\* of assessment + marker + refined_plan is again (assessment, refined_plan);
\* and for the replies whose assessment contains one of the two it is not.
C7_IdempotentWhenAssessmentClean ==
    ReparsedWellFormed =>
        ( Val(reparsed) = Val(parsed)
          <=> /\ Occurrences(Val(parsed).assessment, AssessmentHeading) = {}
              /\ Occurrences(Val(parsed).assessment, marker) = {} )

\* a reply with heading, assessment text, one marker and plan text, parsed twice
C7_Witness ==
    /\ pc = "reparsed"
    /\ ReparsedWellFormed
    /\ Occurrences(Val(full_text), AssessmentHeading) # {}
    /\ Occurrences(Val(parsed).assessment, AssessmentHeading) = {}
    /\ Occurrences(Val(parsed).assessment, marker) = {}
    /\ Val(parsed).assessment # <<>>
    /\ Val(parsed).refined # <<>>
    /\ Len(Val(full_text)) > Len(Val(parsed).assessment) + Len(Val(parsed).refined)
                             + Len(marker) + Len(AssessmentHeading)

----------------------------------------------------------------------------
(* Properties of slugify (checked under SpecSlug) *)

\* C10: the slug has at most 50 characters, each a lowercase letter, a digit
\* or a hyphen (so no uppercase letter, whitespace, underscore or other
\* punctuation), no two hyphens are adjacent, it neither starts nor ends with
\* a hyphen, and "Docker Compose & Kubernetes!" gives
\* "docker-compose-kubernetes".
C10_SlugShape ==
    slug # None =>
        LET s == Val(slug)
        IN /\ Len(s) <= 50
           /\ \A i \in 1..Len(s) :
                 s[i] \in Range(LowerLetters) \cup Range(DecimalDigits) \cup {"-"}
           /\ \A i \in 1..(Len(s) - 1) : ~(s[i] = "-" /\ s[i + 1] = "-")
           /\ s # <<>> => s[1] # "-" /\ s[Len(s)] # "-"
           /\ topic = DockerTopic =>
                 s = <<"d", "o", "c", "k", "e", "r", "-", "c", "o", "m", "p", "o", "s",
                       "e", "-", "k", "u", "b", "e", "r", "n", "e", "t", "e", "s">>

\* a topic cut at 50 characters right after a hyphen, which is then removed
C10_Witness ==
    /\ pc = "slugged"
    /\ Len(topic) > 50
    /\ Len(Val(slug)) = 49
    /\ topic[50] \in Separators

----------------------------------------------------------------------------
(* Properties of the whole program (checked under Spec) *)

\* a remote call has failed with one of the four API errors
ApiFailure == failure # None /\ Val(failure).error \in ApiErrors

\* C2: once a model call has failed with an authentication, connectivity,
\* rate-limit or status error, no further remote call is issued (after a
\* Generator failure the Generator call is the only call ever issued and no
\* Critic prompt exists; after a Critic failure the two calls are), no call is
\* in flight, and the error that propagates and that main's except clause
\* receives is the error the call failed with.
C2_ApiErrorIsTerminal ==
    ApiFailure =>
        /\ calls = IF Val(failure).call = "generator" THEN <<"generator">>
                   ELSE <<"generator", "critic">>
        /\ Val(failure).call = "generator" => criticPrompt = None /\ original_plan = None
        /\ outstanding = {}
        /\ parsed = None
        /\ pc \in {"propagating", "exited"}
        /\ raised = Some(Val(failure).error)
        /\ pc = "exited" => handled = Some(Val(failure).error) /\ exitCode = Some(1)

\* the stream failed with a connectivity error before any fragment arrived and
\* main has handled it
C2_Witness ==
    /\ pc = "exited"
    /\ failure = Some([call |-> "generator", error |-> "APIConnectionError"])
    /\ handled = Some("APIConnectionError")
    /\ wire = <<>>

\* C3: at most one remote call is in flight; a Critic prompt exists, and a
\* Critic call is issued, only once the Generator stream has ended, and the
\* plan the prompt embeds is all the text the stream delivered.
C3_CriticAfterFullDraft ==
    /\ Cardinality(outstanding) <= 1
    /\ criticPrompt # None =>
          /\ "generator" \in completed
          /\ "generator" \notin outstanding
          /\ pc # "streaming"
          /\ Val(criticPrompt).original_plan = wire
    /\ (\E i \in 1..Len(calls) : calls[i] = "critic") =>
          /\ criticPrompt # None
          /\ calls = <<"generator", "critic">>

\* the Critic call is in flight with a prompt that embeds a draft of several
\* fragments
C3_Witness ==
    /\ outstanding = {"critic"}
    /\ criticPrompt # None
    /\ Len(chunks) >= 2
    /\ Val(criticPrompt).original_plan = wire

\* C4: a file exists only if save was requested and both calls completed
\* without failure; once a call has failed or been interrupted there is no
\* file, the program is no longer running the pipeline, and the error or
\* interrupt is the exception that propagates.
C4_SaveOnlyAfterBothCalls ==
    /\ file # None =>
          /\ save
          /\ completed = {"generator", "critic"}
          /\ failure = None
          /\ pc = "done"
          /\ Val(file).content.body = Val(parsed).refined
    /\ failure # None =>
          /\ file = None
          /\ pc \in {"propagating", "exited", "uncaught"}
          /\ raised = Some(Val(failure).error)

\* save was requested, the Critic call was interrupted, the interrupt left
\* main uncaught, and no file exists
C4_Witness ==
    /\ save
    /\ pc = "uncaught"
    /\ failure = Some([call |-> "critic", error |-> "KeyboardInterrupt"])
    /\ file = None

\* C8: at every point the fragments accumulated so far, joined, are the text
\* the stream has delivered so far (in arrival order, each once), whether or
\* not verbose; with verbose the same text was echoed; and run_generator's
\* result, wherever the stream ended, is all the text delivered.
C8_LosslessAccumulation ==
    /\ Join(chunks) = wire
    /\ verbose => echoed = wire
    /\ ~verbose => echoed = <<>>
    /\ original_plan # None => Val(original_plan) = wire

\* a non-verbose run whose stream ended before the bound, after two different
\* fragments
C8_Witness ==
    /\ ~verbose
    /\ original_plan # None
    /\ Len(chunks) = 2
    /\ chunks[1] # chunks[2]
    /\ Len(chunks) < MaxChunks

\* raw is a decimal numeral for 1, 2 or 3
IsOrdinal(raw) ==
    /\ raw # <<>>
    /\ \A i \in 1..Len(raw) : raw[i] \in Range(DecimalDigits)
    /\ IntOf(raw) \in 1..3

\* C9: an entry that is not an ordinal in [1, 3] is rejected and the prompt
\* repeated, the function neither returning nor failing; the function
\* returns only on an ordinal n in [1, 3], and then the n-th catalog entry.
C9_RejectOrReturnNth ==
    /\ lastInput # None /\ ~IsOrdinal(Val(lastInput)) =>
          /\ familiarity = None
          /\ raised = None
          /\ pc \in {"prompt", "exited"}
    /\ familiarity # None =>
          /\ IsOrdinal(Val(lastInput))
          /\ familiarity = Some(FAMILIARITY_LEVELS[IntOf(Val(lastInput))])

====
